---- MODULE Spec2Model ----
(***************************************************************************)
(* Laboratory API (src/main.py, src/schemas.py): request handlers over a   *)
(* document store.  A worker takes a request and runs its handler; each    *)
(* lookup and each insert of a handler is one atomic step, so concurrently *)
(* handled requests interleave between their store calls.  The store       *)
(* adapter (database.py) is not among the sources: it is modelled from its *)
(* contract in the specification, section 4.1.                             *)
(***************************************************************************)
EXTENDS Integers, Sequences, FiniteSets, TLC

\* ------------------------------------------------------------------ bounds
MaxReqs == 3
MaxPayReqs == 4
MaxResultReqs == 5
MaxClock == 1

\* the workers that handle requests concurrently
Procs == {"w1", "w2"}

\* ------------------------------------------------------------ input values
Names == {"Ana"}
Emails == {"ana@x.com", "bob@x.com"}
Passwords == {"pw1", "pw2"}
Codes == {"CBC", "LIP"}
Prices == {-1, 5, 7}
ValueDicts == {"hb=13"}

\* ------------------------------------------------------ python value model
\* A field value is <<type tag, payload>>; Optional[x] is a sequence of
\* length 0 (None) or 1.
None == <<>>
Some(x) == <<x>>
Str(s) == <<"str", s>>
Float(x) == <<"float", x>>
Bool(b) == <<"bool", b>>
Dict(d) == <<"dict", d>>
NoneV == <<"NoneType", 0>>
ObjectId(n) == <<"ObjectId", n>>
Datetime(t) == <<"datetime", t>>
HexStr(h) == <<"hexstr", h>>

IsDatetime(v) == v[1] = "datetime"

\* str(x): an ObjectId prints as its hex string, a str as itself.
PyStr(v) == IF v[1] = "ObjectId" THEN "oid" \o ToString(v[2]) ELSE v[2]

\* ObjectId(s): parse the string form back to the identifier.
OidRange == 1..(MaxReqs + MaxPayReqs + MaxResultReqs)
ParseObjectId(s) == ObjectId(CHOOSE n \in OidRange : "oid" \o ToString(n) = s)

\* datetime.isoformat()
Isoformat(v) == "T" \o ToString(v[2])

\* s.encode(): the UTF-8 bytes of s
Encode(s) == <<"utf8", s>>

\* sha256(b).hexdigest(): HexLen hex characters determined by the bytes
\* (collision-free on the inputs of the model).
HexLen == 64
Sha256Hex(b) == [of |-> b, len |-> HexLen]

\* h[:n]
Prefix(h, n) == [of |-> h.of, len |-> IF n < h.len THEN n ELSE h.len]

hash_password(p) == Sha256Hex(Encode(p))

\* the token with the f prefix of its seed string forgotten
AuthTokenLiteral(email, user_id) == Sha256Hex(Encode("{payload.email}:{user_id}"))

\* sha256(f"{email}:{user_id}".encode()).hexdigest()
AuthToken(email, user_id) == Sha256Hex(Encode(email \o ":" \o user_id))

\* the reference with the timestamp left out of its seed
PaymentReferenceNoTime(uid, code, t) ==
    Prefix(Sha256Hex(Encode(PyStr(uid) \o ":" \o PyStr(code))), 12)

\* sha256(f"{user['_id']}:{service['code']}:{utcnow().isoformat()}")...[:12]
PaymentReference(uid, code, t) ==
    Prefix(Sha256Hex(Encode(PyStr(uid) \o ":" \o PyStr(code) \o ":" \o Isoformat(t))), 12)

\* ------------------------------------------------------------------ schemas
UserSchema(name, email, password_hash) ==
    [name |-> Str(name), email |-> Str(email), password_hash |-> HexStr(password_hash),
     role |-> Str("patient"), is_active |-> Bool(TRUE)]

\* price: float = Field(..., ge=0): construction raises on a negative price
ServiceValid(price) == price >= 0
ServiceSchema(code, name, description, price) ==
    [code |-> Str(code), name |-> Str(name), description |-> description,
     price |-> Float(price), active |-> Bool(TRUE)]

PaymentSchema(user_id, service_code, amount, status, reference) ==
    [user_id |-> Str(user_id), service_code |-> service_code, amount |-> amount,
     status |-> Str(status), reference |-> HexStr(reference)]

ResultSchema(user_id, service_code, values, notes, t) ==
    [user_id |-> Str(user_id), service_code |-> Str(service_code), values |-> Dict(values),
     notes |-> notes, reported_at |-> Datetime(t)]

\* ---------------------------------------------------------------- normalizer
\* the function working on the caller's dict itself
DictCopyAlias(doc) == [obj |-> doc, aliased |-> TRUE]

\* doc = dict(doc): the function works on a copy, the caller's dict is not aliased
DictCopy(doc) == [obj |-> doc, aliased |-> FALSE]

\* if "_id" in doc: doc["id"] = str(doc.pop("_id"))
RenameId(doc) ==
    IF "_id" \in DOMAIN doc
    THEN [k \in (DOMAIN doc \ {"_id"}) \cup {"id"} |->
             IF k = "id" THEN Str(PyStr(doc["_id"])) ELSE doc[k]]
    ELSE doc

\* for k, v in list(doc.items()): if isinstance(v, datetime): doc[k] = v.isoformat()
IsoDates(doc) == [k \in DOMAIN doc |-> IF IsDatetime(doc[k]) THEN Str(Isoformat(doc[k])) ELSE doc[k]]

\* to_str_id as a call: what it returns (ret) and what the caller's argument
\* holds after the call (arg).
ToStrIdCall(arg) ==
    IF arg = None
    THEN [ret |-> None, arg |-> None]
    ELSE LET c == DictCopy(arg[1])
             out == IsoDates(RenameId(c.obj))
         IN [ret |-> Some(out), arg |-> IF c.aliased THEN Some(out) ELSE arg]

to_str_id(doc) == ToStrIdCall(Some(doc)).ret[1]

RECURSIVE MapToStrId(_)
MapToStrId(items) ==
    IF items = <<>> THEN <<>> ELSE <<to_str_id(Head(items))>> \o MapToStrId(Tail(items))

\* -------------------------------------------------------------------- state
VARIABLES
    db,        \* whether the process-wide store handle is present (not None)
    user, service, payment, result,   \* the collections, in insertion order
    nextId,    \* the next identifier the store generates
    now,       \* the clock datetime.utcnow() reads
    pc, req, loc,   \* per worker: position, request in hand, locals
    sent,      \* the response the last step sent, if it sent one: worker, request, response
    nreq,      \* requests received so far
    tokens,    \* the (email, token) pairs successful signups have returned
    paidAt,    \* for each stored payment, the clock reading its reference was built from
    norm       \* a call of to_str_id: its argument and its outcome

vars == <<db, user, service, payment, result, nextId, now, pc, req, loc, sent, nreq, tokens, paidAt, norm>>
hist == <<tokens, paidAt>>
store == <<user, service, payment, result>>

\* ------------------------------------------------------------ store adapter
\* collection.find_one({field: value}): the first match, or None
RECURSIVE find_one(_, _, _)
find_one(coll, field, value) ==
    IF coll = <<>> THEN None
    ELSE IF Head(coll)[field] = value THEN Some(Head(coll))
    ELSE find_one(Tail(coll), field, value)

\* get_documents(name, filt): fails when the handle is absent, otherwise every
\* document matching filt (None: every document), in store order; filt is
\* None or Some(<<field, value>>)
get_documents(coll, filt) ==
    [ok |-> db,
     docs |-> IF filt = None THEN coll
              ELSE SelectSeq(coll, LAMBDA d : d[filt[1][1]] = filt[1][2])]

\* create_document(name, data): fails when the handle is absent, otherwise
\* stores data under a fresh identifier and returns the identifier's string
create_document(coll, data) ==
    [ok |-> db,
     coll |-> IF db THEN Append(coll, data @@ [_id |-> ObjectId(nextId)]) ELSE coll,
     id |-> PyStr(ObjectId(nextId))]

\* ---------------------------------------------------------------- responses
NoResp == [status |-> 0, detail |-> "", list |-> FALSE, body |-> <<>>]
HTTPException(code, detail) == [status |-> code, detail |-> detail, list |-> FALSE, body |-> <<>>]
\* an exception no handler catches: the framework answers 500
ServerError == [status |-> 500, detail |-> "Internal Server Error", list |-> FALSE, body |-> <<>>]
OkObject(doc) == [status |-> 200, detail |-> "", list |-> FALSE, body |-> <<doc>>]
OkList(docs) == [status |-> 200, detail |-> "", list |-> TRUE, body |-> docs]
AuthResponse(token, name, email) ==
    OkObject([token |-> HexStr(token), name |-> Str(name), email |-> Str(email)])

NoLoc == [user |-> None, service |-> None]
NoReq == [op |-> "", name |-> "", email |-> "", password |-> "", code |-> "", price |-> 0,
          user_email |-> None, values |-> "", notes |-> NoneV]

NoSent == [proc |-> "", req |-> NoReq, resp |-> NoResp]

\* the handler returns or raises: the response goes out, the worker is free
Respond(p, r) ==
    /\ pc' = [pc EXCEPT ![p] = "idle"]
    /\ sent' = [proc |-> p, req |-> req[p], resp |-> r]
    /\ req' = [req EXCEPT ![p] = NoReq]
    /\ loc' = [loc EXCEPT ![p] = NoLoc]

\* the handler goes on to its next store call, with locals l
Goto(p, label, l) ==
    /\ pc' = [pc EXCEPT ![p] = label]
    /\ loc' = [loc EXCEPT ![p] = l]
    /\ sent' = NoSent
    /\ UNCHANGED req

\* ------------------------------------------------------------------ requests
SignupRequest == {[NoReq EXCEPT !.op = "signup", !.name = n, !.email = e, !.password = w] :
                     n \in Names, e \in Emails, w \in Passwords}
LoginRequest == {[NoReq EXCEPT !.op = "login", !.email = e, !.password = w] :
                     e \in Emails, w \in Passwords}
CreateService == {[NoReq EXCEPT !.op = "create_service", !.code = c, !.name = c, !.price = x] :
                     c \in Codes, x \in Prices}
CreatePayment == {[NoReq EXCEPT !.op = "create_payment", !.email = e, !.code = c] :
                     e \in Emails, c \in Codes}
CreateResult == {[NoReq EXCEPT !.op = "create_result", !.email = e, !.code = c, !.values = v] :
                     e \in Emails, c \in Codes, v \in ValueDicts}
ListResults == {[NoReq EXCEPT !.op = "list_results", !.user_email = f] :
                     f \in {None, Some("")} \cup {Some(e) : e \in Emails}}
PlainRequest == {[NoReq EXCEPT !.op = o] : o \in {"read_root", "list_services", "test_database"}}

\* the requests of the payment flow: the password plays no part in it
PayRequests == {r \in SignupRequest : r.password = "pw1"} \cup CreateService \cup CreatePayment

\* the requests of the result flow: neither password nor price plays a part
ResultRequests == {r \in SignupRequest : r.password = "pw1"}
                  \cup {r \in CreateService : r.price = 5}
                  \cup CreateResult \cup ListResults

Requests == SignupRequest \cup LoginRequest \cup CreateService \cup CreatePayment
            \cup CreateResult \cup ListResults \cup PlainRequest

\* ---------------------------------------------------------------------- init
InitStore ==
    /\ db \in BOOLEAN
    /\ user = <<>> /\ service = <<>> /\ payment = <<>> /\ result = <<>>
    /\ nextId = 1
    /\ now = 0
    /\ pc = [p \in Procs |-> "idle"]
    /\ req = [p \in Procs |-> NoReq]
    /\ loc = [p \in Procs |-> NoLoc]
    /\ sent = NoSent
    /\ nreq = 0
    /\ tokens = {}
    /\ paidAt = <<>>

Init ==
    /\ InitStore
    /\ norm = [arg |-> None, done |-> FALSE, ret |-> None, after |-> None]

\* the framework hands a validated request, one of R, to a free worker
Receive(p, R, max) ==
    /\ pc[p] = "idle"
    /\ nreq < max
    /\ \E r \in R :
          /\ req' = [req EXCEPT ![p] = r]
          /\ pc' = [pc EXCEPT ![p] = r.op]
    /\ nreq' = nreq + 1
    /\ sent' = NoSent
    /\ UNCHANGED <<db, store, nextId, now, loc, hist, norm>>

\* time passes
Tick ==
    /\ now < MaxClock
    /\ now' = now + 1
    /\ sent' = NoSent
    /\ UNCHANGED <<db, store, nextId, pc, req, loc, nreq, hist, norm>>

\* GET /
read_root(p) ==
    /\ pc[p] = "read_root"
    /\ Respond(p, OkObject([message |-> Str("Laboratory API running")]))
    /\ UNCHANGED <<db, store, nextId, now, nreq, hist, norm>>

\* POST /auth/signup: the lookup
SignupLookup(p) ==
    /\ pc[p] = "signup"
    /\ LET exists == IF db THEN find_one(user, "email", Str(req[p].email)) ELSE None
       IN IF exists # None
          THEN Respond(p, HTTPException(400, "Email already registered"))
          ELSE Goto(p, "signup_insert", loc[p])
    /\ UNCHANGED <<db, store, nextId, now, nreq, hist, norm>>

\* POST /auth/signup: the insert and the token
SignupInsert(p) ==
    /\ pc[p] = "signup_insert"
    /\ LET r == req[p]
           created == create_document(user, UserSchema(r.name, r.email, hash_password(r.password)))
           token == AuthToken(r.email, created.id)
       IN IF ~created.ok
          THEN /\ Respond(p, ServerError)
               /\ UNCHANGED <<user, nextId, tokens>>
          ELSE /\ user' = created.coll
               /\ nextId' = nextId + 1
               /\ tokens' = tokens \cup {<<r.email, token>>}
               /\ Respond(p, AuthResponse(token, r.name, r.email))
    /\ UNCHANGED <<db, service, payment, result, now, nreq, paidAt, norm>>

\* login that marks the user document it found
login_marking(p) ==
    /\ pc[p] = "login"
    /\ LET r == req[p]
           u == IF db THEN find_one(user, "email", Str(r.email)) ELSE None
       IN /\ IF u = None
             THEN Respond(p, HTTPException(401, "Invalid credentials"))
             ELSE IF u[1].password_hash # HexStr(hash_password(r.password))
             THEN Respond(p, HTTPException(401, "Invalid credentials"))
             ELSE Respond(p, AuthResponse(AuthToken(PyStr(u[1].email), PyStr(u[1]["_id"])),
                                          PyStr(u[1].name), PyStr(u[1].email)))
          /\ user' = [i \in DOMAIN user |->
                        IF u # None /\ user[i] = u[1]
                        THEN [user[i] EXCEPT !.role = Str("seen")] ELSE user[i]]
    /\ UNCHANGED <<db, service, payment, result, nextId, now, nreq, hist, norm>>

\* POST /auth/login
login(p) ==
    /\ pc[p] = "login"
    /\ LET r == req[p]
           u == IF db THEN find_one(user, "email", Str(r.email)) ELSE None
       IN IF u = None
          THEN Respond(p, HTTPException(401, "Invalid credentials"))
          ELSE IF u[1].password_hash # HexStr(hash_password(r.password))
          THEN Respond(p, HTTPException(401, "Invalid credentials"))
          ELSE Respond(p, AuthResponse(AuthToken(PyStr(u[1].email), PyStr(u[1]["_id"])),
                                       PyStr(u[1].name), PyStr(u[1].email)))
    /\ UNCHANGED <<db, store, nextId, now, nreq, hist, norm>>

\* list services reading one document only
list_services_one(p) ==
    /\ pc[p] = "list_services"
    /\ LET items == get_documents(service, None)
       IN IF ~items.ok
          THEN Respond(p, ServerError)
          ELSE Respond(p, OkList(MapToStrId(IF items.docs = <<>> THEN <<>>
                                            ELSE <<Head(items.docs)>>)))
    /\ UNCHANGED <<db, store, nextId, now, nreq, hist, norm>>

\* GET /services
list_services(p) ==
    /\ pc[p] = "list_services"
    /\ LET items == get_documents(service, None)
       IN IF ~items.ok
          THEN Respond(p, ServerError)
          ELSE Respond(p, OkList(MapToStrId(items.docs)))
    /\ UNCHANGED <<db, store, nextId, now, nreq, hist, norm>>

\* POST /services: the uniqueness lookup
CreateServiceLookup(p) ==
    /\ pc[p] = "create_service"
    /\ IF ~db
       THEN Respond(p, ServerError)
       ELSE IF find_one(service, "code", Str(req[p].code)) # None
       THEN Respond(p, HTTPException(400, "Service code already exists"))
       ELSE Goto(p, "create_service_insert", loc[p])
    /\ UNCHANGED <<db, store, nextId, now, nreq, hist, norm>>

\* POST /services: schema construction, insert, re-read by identifier, normalize.
\* The re-read is part of the insert step: no operation changes or removes a
\* stored document, so it reads what was inserted whatever is interleaved.
CreateServiceInsert(p) ==
    /\ pc[p] = "create_service_insert"
    /\ LET r == req[p]
           created == create_document(service, ServiceSchema(r.code, r.name, NoneV, r.price))
           out == ToStrIdCall(find_one(created.coll, "_id", ParseObjectId(created.id))).ret
       IN IF ~ServiceValid(r.price) \/ ~created.ok \/ out = None
          THEN /\ Respond(p, ServerError)
               /\ UNCHANGED <<service, nextId>>
          ELSE /\ service' = created.coll
               /\ nextId' = nextId + 1
               /\ Respond(p, OkObject(out[1]))
    /\ UNCHANGED <<db, user, payment, result, now, nreq, hist, norm>>

\* POST /payments: the user lookup
CreatePaymentUser(p) ==
    /\ pc[p] = "create_payment"
    /\ LET u == find_one(user, "email", Str(req[p].email))
       IN IF ~db
          THEN Respond(p, ServerError)
          ELSE IF u = None
          THEN Respond(p, HTTPException(404, "User not found"))
          ELSE Goto(p, "create_payment_service", [loc[p] EXCEPT !.user = u])
    /\ UNCHANGED <<db, store, nextId, now, nreq, hist, norm>>

\* POST /payments: the service lookup
CreatePaymentService(p) ==
    /\ pc[p] = "create_payment_service"
    /\ LET s == find_one(service, "code", Str(req[p].code))
       IN IF s = None
          THEN Respond(p, HTTPException(404, "Service not found"))
          ELSE Goto(p, "create_payment_insert", [loc[p] EXCEPT !.service = s])
    /\ UNCHANGED <<db, store, nextId, now, nreq, hist, norm>>

\* amount: float = Field(..., ge=0)
PaymentValid(amount) == amount[2] >= 0

\* float(service["price"])
PyFloat(v) == Float(v[2])

\* the Payment the handler builds from the documents it looked up
BuildPayment(u, s, t) ==
    PaymentSchema(PyStr(u["_id"]), s.code, PyFloat(s.price), "paid",
                  PaymentReference(u["_id"], s.code, Datetime(t)))

\* POST /payments: build the payment, insert, re-read, normalize
CreatePaymentInsert(p) ==
    /\ pc[p] = "create_payment_insert"
    /\ LET pay == BuildPayment(loc[p].user[1], loc[p].service[1], now)
           created == create_document(payment, pay)
           out == ToStrIdCall(find_one(created.coll, "_id", ParseObjectId(created.id))).ret
       IN IF ~PaymentValid(pay.amount) \/ ~created.ok \/ out = None
          THEN /\ Respond(p, ServerError)
               /\ UNCHANGED <<payment, nextId, paidAt>>
          ELSE /\ payment' = created.coll
               /\ paidAt' = Append(paidAt, now)
               /\ nextId' = nextId + 1
               /\ Respond(p, OkObject(out[1]))
    /\ UNCHANGED <<db, user, service, result, now, nreq, tokens, norm>>

\* list results with the filter dropped
ListResultsRespondUnfiltered(p, u) ==
    LET items == get_documents(result, None)
    IN IF ~items.ok
       THEN Respond(p, ServerError)
       ELSE Respond(p, OkList(MapToStrId(items.docs)))

\* the tail of list_results: get_documents("result", filt) and normalization
ListResultsRespond(p, u) ==
    LET filt == IF u = None THEN None ELSE Some(<<"user_id", Str(PyStr(u[1]["_id"]))>>)
        items == get_documents(result, filt)
    IN IF ~items.ok
       THEN Respond(p, ServerError)
       ELSE Respond(p, OkList(MapToStrId(items.docs)))

\* GET /results: resolve the filter; without one, fetch at once
ListResultsFilter(p) ==
    /\ pc[p] = "list_results"
    /\ LET user_email == req[p].user_email
           truthy == user_email # None /\ user_email[1] # ""
           u == find_one(user, "email", Str(user_email[1]))
       IN IF ~truthy
          THEN ListResultsRespond(p, None)
          ELSE IF ~db
          THEN Respond(p, ServerError)
          ELSE IF u = None
          THEN Respond(p, OkList(<<>>))
          ELSE Goto(p, "list_results_fetch", [loc[p] EXCEPT !.user = u])
    /\ UNCHANGED <<db, store, nextId, now, nreq, hist, norm>>

\* GET /results: fetch by the resolved user id
ListResultsFetch(p) ==
    /\ pc[p] = "list_results_fetch"
    /\ ListResultsRespond(p, loc[p].user)
    /\ UNCHANGED <<db, store, nextId, now, nreq, hist, norm>>

\* POST /results: the user lookup
CreateResultUser(p) ==
    /\ pc[p] = "create_result"
    /\ LET u == find_one(user, "email", Str(req[p].email))
       IN IF ~db
          THEN Respond(p, ServerError)
          ELSE IF u = None
          THEN Respond(p, HTTPException(404, "User not found"))
          ELSE Goto(p, "create_result_service", [loc[p] EXCEPT !.user = u])
    /\ UNCHANGED <<db, store, nextId, now, nreq, hist, norm>>

\* create result without its service check
CreateResultServiceUnchecked(p) ==
    /\ pc[p] = "create_result_service"
    /\ Goto(p, "create_result_insert", loc[p])
    /\ UNCHANGED <<db, store, nextId, now, nreq, hist, norm>>

\* POST /results: the service lookup
CreateResultService(p) ==
    /\ pc[p] = "create_result_service"
    /\ IF find_one(service, "code", Str(req[p].code)) = None
       THEN Respond(p, HTTPException(404, "Service not found"))
       ELSE Goto(p, "create_result_insert", loc[p])
    /\ UNCHANGED <<db, store, nextId, now, nreq, hist, norm>>

\* POST /results: build the result, insert, re-read, normalize
CreateResultInsert(p) ==
    /\ pc[p] = "create_result_insert"
    /\ LET r == req[p]
           res == ResultSchema(PyStr(loc[p].user[1]["_id"]), r.code, r.values, r.notes, now)
           created == create_document(result, res)
           out == ToStrIdCall(find_one(created.coll, "_id", ParseObjectId(created.id))).ret
       IN IF ~created.ok \/ out = None
          THEN /\ Respond(p, ServerError)
               /\ UNCHANGED <<result, nextId>>
          ELSE /\ result' = created.coll
               /\ nextId' = nextId + 1
               /\ Respond(p, OkObject(out[1]))
    /\ UNCHANGED <<db, user, service, payment, now, nreq, hist, norm>>

\* GET /test: never fails; reports connectivity and whether the two
\* environment variables are set
test_database(p) ==
    /\ pc[p] = "test_database"
    /\ \E listed \in BOOLEAN, url \in BOOLEAN, name \in BOOLEAN :
          Respond(p, OkObject(
             [backend |-> Str("Running"),
              database |-> Str(IF ~db THEN "Available but not initialized"
                               ELSE IF listed THEN "Connected & Working"
                               ELSE "Connected but Error"),
              database_url |-> Str(IF url THEN "Set" ELSE "Not Set"),
              database_name |-> Str(IF name THEN "Set" ELSE "Not Set"),
              connection_status |-> Str(IF db THEN "Connected" ELSE "Not Connected")]))
    /\ UNCHANGED <<db, store, nextId, now, nreq, hist, norm>>

Next ==
    \/ Tick
    \/ \E p \in Procs :
          \/ Receive(p, Requests, MaxReqs)
          \/ read_root(p)
          \/ SignupLookup(p)
          \/ SignupInsert(p)
          \/ login(p)
          \/ list_services(p)
          \/ CreateServiceLookup(p)
          \/ CreateServiceInsert(p)
          \/ CreatePaymentUser(p)
          \/ CreatePaymentService(p)
          \/ CreatePaymentInsert(p)
          \/ ListResultsFilter(p)
          \/ ListResultsFetch(p)
          \/ CreateResultUser(p)
          \/ CreateResultService(p)
          \/ CreateResultInsert(p)
          \/ test_database(p)

Spec == Init /\ [][Next]_vars

\* the payment flow alone: signup, create service, create payment
NextPay ==
    \/ Tick
    \/ \E p \in Procs :
          \/ Receive(p, PayRequests, MaxPayReqs)
          \/ SignupLookup(p)
          \/ SignupInsert(p)
          \/ CreateServiceLookup(p)
          \/ CreateServiceInsert(p)
          \/ CreatePaymentUser(p)
          \/ CreatePaymentService(p)
          \/ CreatePaymentInsert(p)

SpecPay == Init /\ [][NextPay]_vars

\* the result flow alone: signup, create service, create result, list results
NextResults ==
    \/ Tick
    \/ \E p \in Procs :
          \/ Receive(p, ResultRequests, MaxResultReqs)
          \/ SignupLookup(p)
          \/ SignupInsert(p)
          \/ CreateServiceLookup(p)
          \/ CreateServiceInsert(p)
          \/ ListResultsFilter(p)
          \/ ListResultsFetch(p)
          \/ CreateResultUser(p)
          \/ CreateResultService(p)
          \/ CreateResultInsert(p)

SpecResults == Init /\ [][NextResults]_vars
\* ------------------------------------------------- the normalizer on its own
\* documents to normalize: every choice of presence and value of these fields
NormChoices ==
    [_id : {None, Some(ObjectId(1)), Some(ObjectId(2))},
     id : {None, Some(Str("stale"))},
     reported_at : {None, Some(Datetime(0)), Some(Datetime(1))},
     created_at : {None, Some(Datetime(0))},
     notes : {None, Some(NoneV), Some(Str("fasting"))},
     amount : {None, Some(Float(5))}]
DocOf(c) == [k \in {f \in DOMAIN c : c[f] # None} |-> c[k][1]]
NormInputs == {None} \cup {Some(DocOf(c)) : c \in NormChoices}

InitNorm ==
    /\ InitStore
    /\ \E a \in NormInputs : norm = [arg |-> a, done |-> FALSE, ret |-> None, after |-> a]

\* a caller passes its document to to_str_id
ApplyToStrId ==
    /\ ~norm.done
    /\ LET call == ToStrIdCall(norm.arg)
       IN norm' = [arg |-> norm.arg, done |-> TRUE, ret |-> call.ret, after |-> call.arg]
    /\ UNCHANGED <<db, store, nextId, now, pc, req, loc, sent, nreq, hist>>

NextNorm == ApplyToStrId

SpecNorm == InitNorm /\ [][NextNorm]_vars

\* ------------------------------------------------------------------- claims
HasEmail(e) == \E i \in 1..Len(user) : user[i].email = Str(e)
HasCode(c) == \E i \in 1..Len(service) : service[i].code = Str(c)
IsPrefix(a, b) == Len(a) <= Len(b) /\ SubSeq(b, 1, Len(a)) = a
\* worker p takes the step of its handler that stands at label
StepAt(p, label) == pc[p] = label /\ pc'[p] # label

\* C1: in every reachable state, under any interleaving of signup and
\* create-service requests, no two User documents have the same email and no
\* two Service documents have the same code.
C1_UniqueKeys ==
    /\ \A i, j \in 1..Len(user) : user[i].email = user[j].email => i = j
    /\ \A i, j \in 1..Len(service) : service[i].code = service[j].code => i = j

\* C2: against a reachable store, a signup whose email matches a User is
\* answered 400 "Email already registered" and leaves the user collection as it
\* is; a signup whose lookup matched no User goes on to its insert, which adds
\* exactly one User with that email and answers with a token that differs from
\* the token of every successful signup with another email.
C2_SignupContract ==
    [][\A p \in Procs :
        /\ (StepAt(p, "signup") /\ db) =>
              IF HasEmail(req[p].email)
              THEN /\ sent'.proc = p
                   /\ sent'.resp = HTTPException(400, "Email already registered")
                   /\ user' = user
              ELSE /\ pc'[p] = "signup_insert"
                   /\ user' = user
        /\ (StepAt(p, "signup_insert") /\ db) =>
              /\ sent'.proc = p
              /\ sent'.resp.status = 200
              /\ Len(user') = Len(user) + 1
              /\ IsPrefix(user, user')
              /\ user'[Len(user')].email = Str(req[p].email)
              /\ <<req[p].email, sent'.resp.body[1].token[2]>> \in tokens'
              /\ \A t \in tokens : t[1] # req[p].email => t[2] # sent'.resp.body[1].token[2]
     ]_vars

\* C2 happens: a signup succeeds after a signup with another email succeeded
C2_Witness ==
    /\ sent.req.op = "signup"
    /\ sent.resp.status = 200
    /\ \E t \in tokens : t[1] # sent.req.email

\* C3: login with an email and the password a user signed up with returns a
\* token; login with an unregistered email and login with a registered email
\* and another password get the identical 401 "Invalid credentials"; login
\* never changes the store.
LoginAnswer ==
    sent.req.op = "login" =>
        LET signedUp == \E i \in 1..Len(user) :
                           /\ user[i].email = Str(sent.req.email)
                           /\ user[i].password_hash = HexStr(hash_password(sent.req.password))
        IN IF signedUp
           THEN sent.resp.status = 200 /\ "token" \in DOMAIN sent.resp.body[1]
           ELSE sent.resp = HTTPException(401, "Invalid credentials")

\* C3 as a property of every login step: the answer above, the store untouched
C3_LoginContract ==
    [][\A p \in Procs : StepAt(p, "login") => (store' = store /\ LoginAnswer')]_vars

StoreOps == {"signup", "login", "list_services", "create_service", "create_payment",
             "list_results", "create_result"}

\* C8: when the store handle is absent, every store-using handler ends its
\* request with a 5xx error, never with a client error or a success.
C8_StoreUnavailable ==
    (~db /\ sent.req.op \in StoreOps) => sent.resp.status >= 500

CodesOf(docs) == {docs[i].code : i \in 1..Len(docs)}

\* what a step does to the service catalog; anyPrice says whether the insert
\* step is held to succeed whatever the price, or for the valid prices only
ServiceSteps(anyPrice) ==
    /\ CodesOf(service) \subseteq CodesOf(service')
    /\ (sent'.req.op = "list_services" /\ db) =>
          /\ sent'.resp.status = 200
          /\ CodesOf(service') \subseteq CodesOf(sent'.resp.body)
    /\ \A p \in Procs :
         /\ (StepAt(p, "create_service") /\ db) =>
               IF HasCode(req[p].code)
               THEN /\ sent'.proc = p
                    /\ sent'.resp = HTTPException(400, "Service code already exists")
                    /\ service' = service
               ELSE pc'[p] = "create_service_insert"
         /\ (StepAt(p, "create_service_insert") /\ db /\ (anyPrice \/ req[p].price >= 0)) =>
               /\ sent'.proc = p
               /\ sent'.resp.status = 200
               /\ sent'.resp.body[1].code = Str(req[p].code)
               /\ Str(req[p].code) \in CodesOf(service')

C5_PaymentContract ==
    [][\A p \in Procs :
        /\ (StepAt(p, "create_payment") /\ db /\ HasEmail(req[p].email)) =>
              pc'[p] = "create_payment_service"
        /\ (StepAt(p, "create_payment_service") /\ HasCode(req[p].code)) =>
              pc'[p] = "create_payment_insert"
        /\ StepAt(p, "create_payment_insert") =>
              /\ sent'.proc = p
              /\ sent'.resp.status = 200
              /\ Len(payment') = Len(payment) + 1
              /\ IsPrefix(payment, payment')
              /\ user' = user /\ service' = service /\ result' = result
              /\ LET pay == payment'[Len(payment')]
                 IN /\ \E i \in 1..Len(user), j \in 1..Len(service) :
                          /\ user[i].email = Str(req[p].email)
                          /\ service[j].code = Str(req[p].code)
                          /\ pay.user_id = Str(PyStr(user[i]["_id"]))
                          /\ pay.service_code = service[j].code
                          /\ pay.amount = service[j].price
                    /\ pay.status = Str("paid")
                    /\ pay.reference[2].len = 12
                    /\ sent'.resp.body[1].reference = pay.reference
                    /\ \A k \in 1..Len(payment) :
                          paidAt[k] # now => payment[k].reference # pay.reference
     ]_vars

\* C5 happens: a second payment of the same user and service, at a later time
C5_Witness ==
    /\ sent.req.op = "create_payment"
    /\ sent.resp.status = 200
    /\ Len(payment) = 2
    /\ payment[1].user_id = payment[2].user_id
    /\ payment[1].service_code = payment[2].service_code
    /\ paidAt[1] # paidAt[2]

\* C6: with the store available, a create-payment or create-result request
\* whose user_email matches no User, or whose service_code matches no Service,
\* is answered 404 and inserts nothing; a Payment or Result is inserted only by
\* a handler at its insert step, when a User with its email and a Service with
\* its code exist; a step that sends an error response writes nothing.
C6_NotFound ==
    [][/\ (sent'.resp.status \notin {0, 200}) => store' = store
       /\ (payment' # payment) =>
             \E p \in Procs : /\ StepAt(p, "create_payment_insert")
                              /\ HasEmail(req[p].email) /\ HasCode(req[p].code)
       /\ (result' # result) =>
             \E p \in Procs : /\ StepAt(p, "create_result_insert")
                              /\ HasEmail(req[p].email) /\ HasCode(req[p].code)
       /\ \A p \in Procs :
            /\ ((StepAt(p, "create_payment") \/ StepAt(p, "create_result"))
                   /\ db /\ ~HasEmail(req[p].email)) =>
                  /\ sent'.proc = p
                  /\ sent'.resp = HTTPException(404, "User not found")
                  /\ store' = store
            /\ ((StepAt(p, "create_payment_service") \/ StepAt(p, "create_result_service"))
                   /\ ~HasCode(req[p].code)) =>
                  /\ sent'.proc = p
                  /\ sent'.resp = HTTPException(404, "Service not found")
                  /\ store' = store
     ]_vars

\* C6 happens: the user exists, the service does not, the answer is 404
C6_Witness ==
    /\ sent.req.op \in {"create_payment", "create_result"}
    /\ sent.resp.status = 404
    /\ HasEmail(sent.req.email)
    /\ ~HasCode(sent.req.code)

\* the Results that carry the string of u's identifier as user_id, normalized
ResultsOfUser(u) ==
    MapToStrId(SelectSeq(result, LAMBDA d : d.user_id = Str(PyStr(u["_id"]))))

ListResultsSteps(p) == StepAt(p, "list_results") \/ StepAt(p, "list_results_fetch")

\* C7: list-results with a user_email that matches no User returns an empty
\* list and no error; with the filter omitted it returns every stored Result;
\* with a user_email that matches a User it returns exactly the Results whose
\* user_id is that User's stringified id; list-results never changes the store.
ListAnswerAsClaimed ==
    (sent.req.op = "list_results" /\ db) =>
        LET f == sent.req.user_email
        IN IF f = None THEN sent.resp = OkList(MapToStrId(result))
           ELSE IF ~HasEmail(f[1]) THEN sent.resp = OkList(<<>>)
           ELSE \E i \in 1..Len(user) :
                   user[i].email = Str(f[1]) /\ sent.resp = OkList(ResultsOfUser(user[i]))

\* C7 as a property of every step: the answer above, the store untouched
C7_ListResultsAsClaimed ==
    [][ListAnswerAsClaimed' /\ \A p \in Procs : ListResultsSteps(p) => store' = store]_vars

\* C7, amended: as claimed, except that an empty user_email counts as an
\* omitted filter: with the filter omitted or empty, every stored Result is
\* returned; a non-empty user_email that matches no User returns an empty list.
ListAnswer ==
    (sent.req.op = "list_results" /\ db) =>
        LET f == sent.req.user_email
        IN IF f = None \/ f = Some("") THEN sent.resp = OkList(MapToStrId(result))
           ELSE IF ~HasEmail(f[1]) THEN sent.resp = OkList(<<>>)
           ELSE \E i \in 1..Len(user) :
                   user[i].email = Str(f[1]) /\ sent.resp = OkList(ResultsOfUser(user[i]))

\* C7, amended, as a property of every step
C7_ListResults ==
    [][ListAnswer' /\ \A p \in Procs : ListResultsSteps(p) => store' = store]_vars

\* C7 happens: the filter matches a User and keeps a stored Result out
C7_Witness ==
    /\ sent.req.op = "list_results"
    /\ sent.resp.status = 200
    /\ sent.req.user_email # None
    /\ HasEmail(sent.req.user_email[1])
    /\ Len(sent.resp.body) < Len(result)

ReadOnlyLabels == {"login", "list_services", "list_results", "list_results_fetch",
                   "read_root", "test_database"}

C10_Normalizer ==
    norm.done =>
        /\ norm.after = norm.arg
        /\ (norm.arg = None) => (norm.ret = None)
        /\ (norm.arg # None /\ "_id" \in DOMAIN norm.arg[1]) =>
              /\ norm.ret # None
              /\ LET d == norm.arg[1]
                     r == norm.ret[1]
                 IN /\ DOMAIN r = (DOMAIN d \ {"_id"}) \cup {"id"}
                    /\ r.id[1] = "str"
                    /\ r.id[2] = "oid" \o ToString(d["_id"][2])
                    /\ \A k \in DOMAIN d \ {"_id", "id"} :
                          IF d[k][1] = "datetime"
                          THEN r[k][1] = "str" /\ r[k][2] = "T" \o ToString(d[k][2])
                          ELSE r[k] = d[k]

\* C10 happens: a stored document with a timestamp has been normalized
C10_Witness ==
    /\ norm.done
    /\ norm.arg # None
    /\ {"_id", "reported_at", "notes"} \subseteq DOMAIN norm.arg[1]
====
